---------------------------- MODULE Spec2Model ----------------------------
(***************************************************************************)
(* PhotoGeoView backend: read_exif, generate_thumbnail and get_photo_data  *)
(* (src-tauri/src/commands/exif.rs, commands/thumbnail.rs, lib.rs).        *)
(*                                                                         *)
(* Text is a sequence of one-character strings.  An f64 is held as an      *)
(* exact fraction n/d in lowest terms, or inf / nan: the arithmetic of     *)
(* extract_gps_coordinate is exact here and rounded in the program.        *)
(* The value of a container field is the exif crate's Value; an Ascii      *)
(* value is held as the text display_value().to_string() renders for it.   *)
(***************************************************************************)
EXTENDS Integers, Sequences, FiniteSets, TLC

VARIABLES
    pathExists,   \* the path names an entry of the file system right now
    file,         \* what the file at the path holds
    cmd,          \* the command in progress: a #[command] of lib.rs
    pc,           \* where that command stands
    exifRes,      \* Result<ExifData> of the read_exif call of this command
    thumbRes,     \* Result<String> of the generate_thumbnail call
    ret           \* what the command returned

vars == <<pathExists, file, cmd, pc, exifRes, thumbRes, ret>>

----------------------------------------------------------------------------
(* Bounds of the model *)

MaxLen == 5          \* longest timestamp text drawn from the alphabet
MaxDev == 2          \* most tags by which a drawn container differs from the base
MaxDim == 6          \* small image sides 1..MaxDim
MaxScale == 20       \* large image sides around THUMBNAIL_SIZE * (1..MaxScale)
MaxDeg == 181        \* largest degrees numerator drawn for a GPS triple

----------------------------------------------------------------------------
(* Option<T> and Result<T, PhotoError> *)

None == [some |-> FALSE]
Some(x) == [some |-> TRUE, val |-> x]

Ok(x) == [ok |-> TRUE, val |-> x]
Err(kind) == [ok |-> FALSE, err |-> kind]

NoResult == [ok |-> FALSE, err |-> "none"]

PhotoError ==
    {"FileNotFound", "FileReadError", "ExifReadError", "NoGpsData",
     "ImageProcessError", "ThumbnailGenerationError", "InternalError"}

----------------------------------------------------------------------------
(* Text *)

RECURSIVE Split(_, _)
\* str::split(c): the parts between the occurrences of c, one more than
\* there are occurrences
Split(s, c) ==
    IF \A i \in 1..Len(s) : s[i] # c
    THEN <<s>>
    ELSE LET k == CHOOSE i \in 1..Len(s) :
                      s[i] = c /\ \A j \in 1..(i - 1) : s[j] # c
         IN  <<SubSeq(s, 1, k - 1)>> \o Split(SubSeq(s, k + 1, Len(s)), c)

\* str::replace(a, b) for one-character a and b
Replace(s, a, b) == [i \in 1..Len(s) |-> IF s[i] = a THEN b ELSE s[i]]

IsSpace(ch) == ch = " "

RECURSIVE TrimStart(_)
TrimStart(s) ==
    IF s # <<>> /\ IsSpace(s[1]) THEN TrimStart(Tail(s)) ELSE s

RECURSIVE TrimEnd(_)
TrimEnd(s) ==
    IF s # <<>> /\ IsSpace(s[Len(s)])
    THEN TrimEnd(SubSeq(s, 1, Len(s) - 1)) ELSE s

\* str::trim()
Trim(s) == TrimEnd(TrimStart(s))

----------------------------------------------------------------------------
(* f64 *)

Abs(i) == IF i < 0 THEN -i ELSE i

RECURSIVE GCD(_, _)
GCD(a, b) == IF b = 0 THEN a ELSE GCD(b, a % b)

\* The finite value n/d (d > 0), in lowest terms
Fin(n, d) ==
    LET g == GCD(Abs(n), d)
    IN  [k |-> "fin", n |-> n \div g, d |-> d \div g]
Inf(sign) == [k |-> "inf", n |-> sign, d |-> 0]
NaN == [k |-> "nan", n |-> 0, d |-> 0]

\* Rational::to_f64: num as f64 / denom as f64
to_f64(r) ==
    IF r.denom # 0 THEN Fin(r.num, r.denom)
    ELSE IF r.num = 0 THEN NaN ELSE Inf(1)

\* x / c for a positive constant c
FDivConst(x, c) ==
    IF x.k = "fin" THEN Fin(x.n, x.d * c) ELSE x

FAdd(x, y) ==
    IF x.k = "nan" \/ y.k = "nan" THEN NaN
    ELSE IF x.k = "inf" /\ y.k = "inf"
         THEN IF x.n = y.n THEN x ELSE NaN
    ELSE IF x.k = "inf" THEN x
    ELSE IF y.k = "inf" THEN y
    ELSE Fin(x.n * y.d + y.n * x.d, x.d * y.d)

FNeg(x) ==
    IF x.k = "nan" THEN NaN
    ELSE IF x.k = "inf" THEN Inf(-x.n)
    ELSE Fin(-x.n, x.d)

----------------------------------------------------------------------------
(* The parsed container: exif::Exif as a map from tag to field value *)

Tags ==
    {"GPSLatitude", "GPSLatitudeRef", "GPSLongitude", "GPSLongitudeRef",
     "DateTimeOriginal", "DateTime", "Make", "Model",
     "PixelXDimension", "ImageWidth", "PixelYDimension", "ImageLength",
     "PhotographicSensitivity", "FNumber", "ExposureTime", "FocalLength"}

\* exif::Value, every variant with the same fields: rat for Rational,
\* int for Byte/Short/Long, text for Ascii
Absent == [type |-> "absent", rat |-> <<>>, int |-> <<>>, text |-> <<>>]
Rational(v) == [type |-> "Rational", rat |-> v, int |-> <<>>, text |-> <<>>]
Short(v) == [type |-> "Short", rat |-> <<>>, int |-> v, text |-> <<>>]
Ascii(s) == [type |-> "Ascii", rat |-> <<>>, int |-> <<>>, text |-> s]

Rat(n, d) == [num |-> n, denom |-> d]

EmptyExif == [t \in Tags |-> Absent]

\* Exif::get_field(tag, In::PRIMARY)
get_field(exif, tag) ==
    IF exif[tag].type = "absent" THEN None ELSE Some(exif[tag])

\* Value::get_uint(0): the first element of an unsigned integer value
get_uint0(value) ==
    IF value.type = "Short" /\ Len(value.int) > 0
    THEN Some(value.int[1]) ELSE None

RECURSIVE CommaList(_)
CommaList(n) ==
    IF n = 0 THEN <<>>
    ELSE IF n = 1 THEN <<"#">>
    ELSE <<"#", ",", " ">> \o CommaList(n - 1)

\* Field::display_value().to_string(): the text of an Ascii value; a
\* numeric value is rendered as its elements ("#" stands for one number)
\* separated by ", "
display_value(value) ==
    IF value.type = "Ascii" THEN value.text
    ELSE CommaList(Len(value.rat) + Len(value.int))

----------------------------------------------------------------------------
(* commands/exif.rs: one function per field of ExifData *)

\* The decimal degrees of a triple: degrees + minutes / 60 + seconds / 3600
dms_to_decimal(v) ==
    LET degrees == to_f64(v[1])
        minutes == to_f64(v[2])
        seconds == to_f64(v[3])
    IN  FAdd(FAdd(degrees, FDivConst(minutes, 60)), FDivConst(seconds, 3600))

\* A slip: only the southern hemisphere is negated
apply_hemisphere_south_only(decimal, ref_str) ==
    IF ref_str = <<"S">> THEN FNeg(decimal) ELSE decimal

\* South and west are negative
apply_hemisphere(decimal, ref_str) ==
    IF ref_str = <<"S">> \/ ref_str = <<"W">> THEN FNeg(decimal) ELSE decimal

\* extract_gps_coordinate: degrees, minutes, seconds to decimal degrees
extract_gps_coordinate(exif, coord_tag, ref_tag) ==
    LET coord_field == get_field(exif, coord_tag)
        ref_field == get_field(exif, ref_tag)
    IN  IF ~coord_field.some THEN None
        ELSE IF ~ref_field.some THEN None
        ELSE IF ~(coord_field.val.type = "Rational"
                  /\ Len(coord_field.val.rat) >= 3) THEN None
        ELSE Some(apply_hemisphere(dms_to_decimal(coord_field.val.rat),
                                   display_value(ref_field.val)))

\* A slip: a missing axis is filled with 0.0 instead of dropping the fix
extract_gps_partial(exif) ==
    LET lat == extract_gps_coordinate(exif, "GPSLatitude", "GPSLatitudeRef")
        lng == extract_gps_coordinate(exif, "GPSLongitude", "GPSLongitudeRef")
    IN  IF ~lat.some /\ ~lng.some THEN None
        ELSE Some([lat |-> IF lat.some THEN lat.val ELSE Fin(0, 1),
                   lng |-> IF lng.some THEN lng.val ELSE Fin(0, 1)])

\* extract_gps: both axes or nothing
extract_gps(exif) ==
    LET lat == extract_gps_coordinate(exif, "GPSLatitude", "GPSLatitudeRef")
        lng == extract_gps_coordinate(exif, "GPSLongitude", "GPSLongitudeRef")
    IN  IF ~lat.some THEN None
        ELSE IF ~lng.some THEN None
        ELSE Some([lat |-> lat.val, lng |-> lng.val])

\* A slip: the time part keeps the hyphens the first replace gave it
convert_datetime_hyphen_time(datetime_str) ==
    LET iso_datetime == Replace(Replace(datetime_str, " ", "T"), ":", "-")
        parts == Split(iso_datetime, "T")
    IN  IF Len(parts) = 2
        THEN parts[1] \o <<"T">> \o parts[2]
        ELSE datetime_str

\* A slip: the fallback returns the converted text, not the original
convert_datetime_fallback_converted(datetime_str) ==
    LET iso_datetime == Replace(Replace(datetime_str, " ", "T"), ":", "-")
        parts == Split(iso_datetime, "T")
    IN  IF Len(parts) = 2
        THEN parts[1] \o <<"T">> \o Replace(parts[2], "-", ":")
        ELSE iso_datetime

\* The conversion of extract_datetime applied to datetime_str
convert_datetime(datetime_str) ==
    LET iso_datetime == Replace(Replace(datetime_str, " ", "T"), ":", "-")
        parts == Split(iso_datetime, "T")
    IN  IF Len(parts) = 2
        THEN LET date == parts[1]
                 time == Replace(parts[2], "-", ":")
             IN  date \o <<"T">> \o time
        ELSE datetime_str

\* A slip: the modification tag is tried first
extract_datetime_modified_first(exif) ==
    LET modified == get_field(exif, "DateTime")
        datetime_field ==
            IF modified.some THEN modified
            ELSE get_field(exif, "DateTimeOriginal")
    IN  IF ~datetime_field.some THEN None
        ELSE Some(convert_datetime(display_value(datetime_field.val)))

\* extract_datetime: DateTimeOriginal, else DateTime
extract_datetime(exif) ==
    LET original == get_field(exif, "DateTimeOriginal")
        datetime_field ==
            IF original.some THEN original ELSE get_field(exif, "DateTime")
    IN  IF ~datetime_field.some THEN None
        ELSE Some(convert_datetime(display_value(datetime_field.val)))

\* A slip: a missing make or model becomes the empty string
extract_camera_defaulted(exif) ==
    LET make == get_field(exif, "Make")
        model == get_field(exif, "Model")
    IN  IF ~make.some /\ ~model.some THEN None
        ELSE Some([make |-> IF make.some
                            THEN Trim(display_value(make.val)) ELSE <<>>,
                   model |-> IF model.some
                             THEN Trim(display_value(model.val)) ELSE <<>>])

\* extract_camera: make and model, both or nothing
extract_camera(exif) ==
    LET make == get_field(exif, "Make")
        model == get_field(exif, "Model")
    IN  IF ~make.some THEN None
        ELSE IF ~model.some THEN None
        ELSE Some([make |-> Trim(display_value(make.val)),
                   model |-> Trim(display_value(model.val))])

\* One side of extract_image_size: the first tag present, read as uint
extract_dimension(exif, pixel_tag, image_tag) ==
    LET pixel == get_field(exif, pixel_tag)
        f == IF pixel.some THEN pixel ELSE get_field(exif, image_tag)
    IN  IF ~f.some THEN None ELSE get_uint0(f.val)

\* A slip: the height chain falls back to the width's tag
extract_image_size_crossed(exif) ==
    <<extract_dimension(exif, "PixelXDimension", "ImageWidth"),
      extract_dimension(exif, "PixelYDimension", "ImageWidth")>>

\* extract_image_size: (width, height)
extract_image_size(exif) ==
    <<extract_dimension(exif, "PixelXDimension", "ImageWidth"),
      extract_dimension(exif, "PixelYDimension", "ImageLength")>>

\* extract_iso
extract_iso(exif) ==
    LET f == get_field(exif, "PhotographicSensitivity")
    IN  IF ~f.some THEN None ELSE get_uint0(f.val)

\* The match of extract_aperture, extract_shutter_speed and
\* extract_focal_length: the first rational of the field
first_rational(exif, tag) ==
    LET f == get_field(exif, tag)
    IN  IF ~f.some THEN None
        ELSE IF f.val.type = "Rational" /\ Len(f.val.rat) > 0
             THEN Some(to_f64(f.val.rat[1]))
             ELSE None

extract_aperture(exif) == first_rational(exif, "FNumber")

extract_shutter_speed(exif) == first_rational(exif, "ExposureTime")

extract_focal_length(exif) == first_rational(exif, "FocalLength")

\* The ExifData read_exif builds from a parsed container
ExifData(exif) ==
    LET size == extract_image_size(exif)
    IN  [gps |-> extract_gps(exif),
         datetime |-> extract_datetime(exif),
         camera |-> extract_camera(exif),
         width |-> size[1],
         height |-> size[2],
         iso |-> extract_iso(exif),
         aperture |-> extract_aperture(exif),
         shutter_speed |-> extract_shutter_speed(exif),
         focal_length |-> extract_focal_length(exif)]

\* A slip: no existence check, the open is left to find out
read_exif_unchecked(exists) == None

\* read_exif up to its existence check: Some(error) when it returns there
read_exif_check(exists) ==
    IF ~exists THEN Some(Err("FileNotFound")) ELSE None

\* read_exif from File::open on: the open, the container parse, the fields
read_exif_open(exists, f) ==
    IF ~exists \/ ~f.readable THEN Err("FileReadError")
    ELSE IF ~f.parses THEN Err("ExifReadError")
    ELSE Ok(ExifData(f.exif))

----------------------------------------------------------------------------
(* commands/thumbnail.rs *)

THUMBNAIL_SIZE == 200

Max(a, b) == IF a >= b THEN a ELSE b

\* f64::round of the non-negative a / b
RoundDiv(a, b) == (2 * a + b) \div (2 * b)

\* image::DynamicImage::resize(nwidth, nheight, _): the largest size of the
\* source's aspect ratio that fits in nwidth x nheight, each side at least 1
resize_dimensions(width, height, nwidth, nheight) ==
    IF nwidth * height <= nheight * width
    THEN <<Max(RoundDiv(width * nwidth, width), 1),
           Max(RoundDiv(height * nwidth, width), 1)>>
    ELSE <<Max(RoundDiv(width * nheight, height), 1),
           Max(RoundDiv(height * nheight, height), 1)>>

\* A slip: resize_exact, which fills the box whatever the source's shape
thumbnail_dimensions_exact(width, height) ==
    <<THUMBNAIL_SIZE, THUMBNAIL_SIZE>>

\* The size of the image generate_thumbnail encodes
thumbnail_dimensions(width, height) ==
    resize_dimensions(width, height, THUMBNAIL_SIZE, THUMBNAIL_SIZE)

\* generate_thumbnail up to its existence check
generate_thumbnail_check(exists) ==
    IF ~exists THEN Some(Err("FileNotFound")) ELSE None

\* generate_thumbnail from image::open on: decode, resize, encode, wrap
generate_thumbnail_open(exists, f) ==
    IF ~exists \/ ~f.readable \/ ~f.decodes THEN Err("ImageProcessError")
    ELSE IF ~f.encodes THEN Err("ImageProcessError")
    ELSE LET dim == thumbnail_dimensions(f.width, f.height)
         IN  Ok([prefix |-> "data:image/jpeg;base64,",
                 width |-> dim[1], height |-> dim[2]])

----------------------------------------------------------------------------
(* lib.rs: get_photo_data *)

\* Result::ok
ok(res) == IF res.ok THEN Some(res.val) ELSE None

\* A slip: the thumbnail error is propagated with ?
get_photo_data_return_strict(exif_result, thumbnail_result) ==
    IF ~thumbnail_result.ok THEN Err("thumbnail")
    ELSE Ok([exif |-> ok(exif_result), thumbnail |-> ok(thumbnail_result)])

\* The PhotoData get_photo_data returns once both calls are back
get_photo_data_return(exif_result, thumbnail_result) ==
    Ok([exif |-> ok(exif_result), thumbnail |-> ok(thumbnail_result)])

----------------------------------------------------------------------------
(* The commands, step by step.  A command touches the file system at its   *)
(* existence check and again at its open; another process may delete the   *)
(* file in between.                                                        *)

Commands == {"read_photo_exif", "generate_thumbnail", "get_photo_data"}

\* A command is invoked on the path
Invoke(c) ==
    /\ pc = "idle"
    /\ cmd' = c
    /\ pc' = CASE c = "read_photo_exif" -> "exif_check"
               [] c = "generate_thumbnail" -> "thumb_check"
               [] c = "get_photo_data" -> "metadata"
    /\ UNCHANGED <<pathExists, file, exifRes, thumbRes, ret>>

\* get_photo_data: fs::metadata(&path), an error returns at once
Metadata ==
    /\ pc = "metadata"
    /\ IF pathExists
       THEN /\ pc' = "exif_check"
            /\ ret' = ret
       ELSE /\ pc' = "done"
            /\ ret' = Err("metadata")
    /\ UNCHANGED <<pathExists, file, cmd, exifRes, thumbRes>>

\* read_exif is back with res: read_photo_exif returns it, get_photo_data
\* goes on to generate_thumbnail
ExifReturn(res) ==
    /\ exifRes' = res
    /\ IF cmd = "read_photo_exif"
       THEN /\ pc' = "done"
            /\ ret' = res
       ELSE /\ pc' = "thumb_check"
            /\ ret' = ret

\* read_exif: the existence check
ExifCheck ==
    /\ pc = "exif_check"
    /\ LET early == read_exif_check(pathExists)
       IN  IF early.some
           THEN ExifReturn(early.val)
           ELSE /\ pc' = "exif_open"
                /\ UNCHANGED <<exifRes, ret>>
    /\ UNCHANGED <<pathExists, file, cmd, thumbRes>>

\* read_exif: the open, the parse and the extraction
ExifOpen ==
    /\ pc = "exif_open"
    /\ ExifReturn(read_exif_open(pathExists, file))
    /\ UNCHANGED <<pathExists, file, cmd, thumbRes>>

\* generate_thumbnail is back with res
ThumbReturn(res) ==
    /\ thumbRes' = res
    /\ IF cmd = "generate_thumbnail"
       THEN /\ pc' = "done"
            /\ ret' = res
       ELSE /\ pc' = "assemble"
            /\ ret' = ret

\* generate_thumbnail: the existence check
ThumbCheck ==
    /\ pc = "thumb_check"
    /\ LET early == generate_thumbnail_check(pathExists)
       IN  IF early.some
           THEN ThumbReturn(early.val)
           ELSE /\ pc' = "thumb_open"
                /\ UNCHANGED <<thumbRes, ret>>
    /\ UNCHANGED <<pathExists, file, cmd, exifRes>>

\* generate_thumbnail: open, decode, resize, encode
ThumbOpen ==
    /\ pc = "thumb_open"
    /\ ThumbReturn(generate_thumbnail_open(pathExists, file))
    /\ UNCHANGED <<pathExists, file, cmd, exifRes>>

\* get_photo_data: Ok(PhotoData { .. })
Assemble ==
    /\ pc = "assemble"
    /\ ret' = get_photo_data_return(exifRes, thumbRes)
    /\ pc' = "done"
    /\ UNCHANGED <<pathExists, file, cmd, exifRes, thumbRes>>

\* Another process deletes the file while a command is running
DeleteFile ==
    /\ pathExists
    /\ pc \notin {"idle", "done"}
    /\ pathExists' = FALSE
    /\ UNCHANGED <<file, cmd, pc, exifRes, thumbRes, ret>>

----------------------------------------------------------------------------
(* Files *)

Chars(str) ==
    CASE str = "ts" -> <<"2", "0", "2", "4", ":", "0", "3", ":", "1", "5", " ",
                         "1", "0", ":", "2", "0", ":", "3", "0">>
      [] str = "ts2" -> <<"2", "0", "2", "3", ":", "0", "1", ":", "0", "2", " ",
                          "0", "3", ":", "0", "4", ":", "0", "5">>

\* A container with every tag present in its expected shape
FullExif ==
    [t \in Tags |->
        CASE t = "GPSLatitude" -> Rational(<<Rat(35, 1), Rat(30, 1), Rat(0, 1)>>)
          [] t = "GPSLatitudeRef" -> Ascii(<<"N">>)
          [] t = "GPSLongitude" -> Rational(<<Rat(139, 1), Rat(45, 1), Rat(0, 1)>>)
          [] t = "GPSLongitudeRef" -> Ascii(<<"E">>)
          [] t = "DateTimeOriginal" -> Ascii(Chars("ts"))
          [] t = "DateTime" -> Ascii(Chars("ts2"))
          [] t = "Make" -> Ascii(<<"C", " ">>)
          [] t = "Model" -> Ascii(<<"M">>)
          [] t = "PixelXDimension" -> Short(<<4000>>)
          [] t = "ImageWidth" -> Short(<<4032>>)
          [] t = "PixelYDimension" -> Short(<<3000>>)
          [] t = "ImageLength" -> Short(<<3024>>)
          [] t = "PhotographicSensitivity" -> Short(<<100>>)
          [] t = "FNumber" -> Rational(<<Rat(28, 10)>>)
          [] t = "ExposureTime" -> Rational(<<Rat(1, 125)>>)
          [] t = "FocalLength" -> Rational(<<Rat(50, 1)>>)]

\* A value of a shape the extraction of tag t does not expect
Malformed(t) ==
    IF FullExif[t].type = "Rational" THEN Short(<<7>>)
    ELSE IF FullExif[t].type = "Short" THEN Ascii(<<"x">>)
    ELSE Short(<<7, 7>>)

\* A file: whether it opens, parses as a container, decodes as an image and
\* encodes as JPEG, with the container's fields and the image's size
File(readable, parses, exif, decodes, encodes, width, height) ==
    [readable |-> readable, parses |-> parses, exif |-> exif,
     decodes |-> decodes, encodes |-> encodes,
     width |-> width, height |-> height]

PlainFile(exif, width, height) == File(TRUE, TRUE, exif, TRUE, TRUE, width, height)

NoFile == File(FALSE, FALSE, EmptyExif, FALSE, FALSE, 1, 1)

ProgramFiles ==
    {File(r, p, e, d, n, w, h) :
        r \in BOOLEAN, p \in BOOLEAN, e \in {FullExif, EmptyExif},
        d \in BOOLEAN, n \in BOOLEAN,
        w \in {MaxDim, 2 * THUMBNAIL_SIZE}, h \in {3 * THUMBNAIL_SIZE}}

Start(f, exists) ==
    /\ file = f
    /\ pathExists = exists
    /\ cmd = "none"
    /\ pc = "idle"
    /\ exifRes = NoResult
    /\ thumbRes = NoResult
    /\ ret = NoResult

Init ==
    \/ \E f \in ProgramFiles : Start(f, TRUE)
    \/ Start(NoFile, FALSE)

Next ==
    \/ \E c \in Commands : Invoke(c)
    \/ Metadata
    \/ ExifCheck
    \/ ExifOpen
    \/ ThumbCheck
    \/ ThumbOpen
    \/ Assemble
    \/ DeleteFile

Spec == Init /\ [][Next]_vars

----------------------------------------------------------------------------
(* read_exif alone on drawn containers: the file exists, opens and parses, *)
(* and nothing deletes it.                                                 *)

NextExif ==
    \/ Invoke("read_photo_exif")
    \/ ExifCheck
    \/ ExifOpen

\* GPS tags: one axis drawn from the rich sets, the other from the small
CoordRich ==
    {Absent, Short(<<35, 30, 0>>), Rational(<<Rat(35, 1), Rat(30, 1)>>),
     Rational(<<Rat(35, 1), Rat(30, 1), Rat(0, 1), Rat(9, 1)>>)}
    \cup {Rational(<<Rat(d, dd), m, sec>>) :
            d \in {0, 35, 139, MaxDeg}, dd \in {0, 1, 2},
            m \in {Rat(0, 1), Rat(30, 1), Rat(45, 1), Rat(1, 0)},
            sec \in {Rat(0, 1), Rat(30, 1), Rat(0, 0)}}

RefRich ==
    {Absent, Short(<<1>>), Ascii(<<"N">>), Ascii(<<"S">>), Ascii(<<"E">>),
     Ascii(<<"W">>), Ascii(<<"X">>)}

CoordSmall == {Absent, Rational(<<Rat(139, 1), Rat(45, 1), Rat(0, 1)>>)}

RefSmall == {Absent, Ascii(<<"E">>), Ascii(<<"W">>)}

GpsExif(lat, latRef, lng, lngRef) ==
    [EmptyExif EXCEPT !["GPSLatitude"] = lat, !["GPSLatitudeRef"] = latRef,
                      !["GPSLongitude"] = lng, !["GPSLongitudeRef"] = lngRef]

InitGps ==
    \E a \in CoordRich, b \in RefRich, c \in CoordSmall, d \in RefSmall :
        \E e \in {GpsExif(a, b, c, d), GpsExif(c, d, a, b)} :
            Start(PlainFile(e, MaxDim, MaxDim), TRUE)

SpecGps == InitGps /\ [][NextExif]_vars

\* Containers within MaxDev tags of the full and of the empty container
Deviations(most) == {S \in SUBSET Tags : Cardinality(S) <= most}

Deviate(base, S, how) ==
    [t \in Tags |->
        IF t \notin S THEN base[t]
        ELSE IF how[t] = "malformed" THEN Malformed(t)
        ELSE IF base[t].type = "absent" THEN FullExif[t] ELSE Absent]

InitFields ==
    \E base \in {FullExif, EmptyExif}, S \in Deviations(MaxDev) :
        \E how \in [S -> {"flip", "malformed"}] :
            Start(PlainFile(Deviate(base, S, how), MaxDim, MaxDim), TRUE)

SpecFields == InitFields /\ [][NextExif]_vars

\* Timestamp texts: every text of at most MaxLen characters of the
\* alphabet, and two full timestamps
Alphabet == {"1", ":", " ", "T", "-"}

Texts(longest) ==
    UNION {[1..n -> Alphabet] : n \in 0..longest}
    \cup {Chars("ts"), Chars("ts2")}

DateExif(original, modified) ==
    [EmptyExif EXCEPT !["DateTimeOriginal"] = original, !["DateTime"] = modified]

InitDate ==
    \/ \E x \in Texts(MaxLen) :
          \E e \in {DateExif(Ascii(x), Absent), DateExif(Absent, Ascii(x))} :
             Start(PlainFile(e, MaxDim, MaxDim), TRUE)
    \/ \E a \in {Absent, Ascii(Chars("ts")), Short(<<7>>)},
          b \in {Absent, Ascii(Chars("ts2")), Short(<<7, 7>>)} :
             Start(PlainFile(DateExif(a, b), MaxDim, MaxDim), TRUE)

SpecDate == InitDate /\ [][NextExif]_vars

----------------------------------------------------------------------------
(* generate_thumbnail alone on images of drawn sizes *)

NextThumb ==
    \/ Invoke("generate_thumbnail")
    \/ ThumbCheck
    \/ ThumbOpen

\* Image sides: the small ones, and those around the multiples of the bound
Sides ==
    (1..MaxDim)
    \cup {THUMBNAIL_SIZE * k + j : k \in 1..MaxScale, j \in {-1, 0, 1}}

InitThumb ==
    \E w \in Sides, h \in Sides : Start(PlainFile(EmptyExif, w, h), TRUE)

SpecThumb == InitThumb /\ [][NextThumb]_vars

----------------------------------------------------------------------------
(* What a finished command left *)

Done(c) == pc = "done" /\ cmd = c

ExifDone == Done("read_photo_exif") /\ ret.ok

\* The sign the hemisphere reference gives an axis
Sign(refValue) ==
    IF refValue = Ascii(<<"S">>) \/ refValue = Ascii(<<"W">>) THEN -1 ELSE 1

\* x is the finite value sign * (d + m/60 + s/3600) of the triple v
IsDms(x, v, sign) ==
    LET den == 3600 * v[1].denom * v[2].denom * v[3].denom
        num ==   v[1].num * 3600 * v[2].denom * v[3].denom
               + v[2].num * 60 * v[1].denom * v[3].denom
               + v[3].num * v[1].denom * v[2].denom
        g == GCD(num, den)
    IN  /\ x.k = "fin"
        /\ x.n = sign * (num \div g)
        /\ x.d = den \div g

Triple(value) == value.type = "Rational" /\ Len(value.rat) >= 3

FiniteTriple(value) ==
    Triple(value) /\ \A i \in 1..3 : value.rat[i].denom # 0

Letters == {Ascii(<<"N">>), Ascii(<<"S">>), Ascii(<<"E">>), Ascii(<<"W">>)}

----------------------------------------------------------------------------
(* C1 *)

\* C1: when the existence check of read_exif or of generate_thumbnail finds
\* that the path names no file, the call returns the FileNotFound error,
\* and a command that is only that call returns it too.
C1_MissingPathIsFileNotFound ==
    [][/\ (pc = "exif_check" /\ ~pathExists)
            => /\ exifRes' = Err("FileNotFound")
               /\ cmd = "read_photo_exif" => ret' = Err("FileNotFound")
       /\ (pc = "thumb_check" /\ ~pathExists)
            => /\ thumbRes' = Err("FileNotFound")
               /\ cmd = "generate_thumbnail" => ret' = Err("FileNotFound")]_vars

\* Both calls have met the missing path
C1_Witness ==
    /\ ~pathExists
    /\ pc = "assemble"
    /\ exifRes = Err("FileNotFound")
    /\ thumbRes = Err("FileNotFound")

----------------------------------------------------------------------------
(* C2 *)

\* C2: a record has a GPS coordinate exactly when the latitude triple, the
\* latitude reference, the longitude triple and the longitude reference are
\* all present, each triple a list of at least three rationals.
C2_GpsIffAllFour ==
    ExifDone =>
        (ret.val.gps.some <=>
            /\ Triple(file.exif["GPSLatitude"])
            /\ file.exif["GPSLatitudeRef"].type # "absent"
            /\ Triple(file.exif["GPSLongitude"])
            /\ file.exif["GPSLongitudeRef"].type # "absent")

\* A latitude triple without its reference, the longitude complete: no GPS
C2_Witness ==
    /\ ExifDone
    /\ Triple(file.exif["GPSLatitude"])
    /\ file.exif["GPSLatitudeRef"].type = "absent"
    /\ Triple(file.exif["GPSLongitude"])
    /\ file.exif["GPSLongitudeRef"].type # "absent"
    /\ ~ret.val.gps.some

----------------------------------------------------------------------------
(* C3 *)

\* C3: with both tags of each axis present and the reference one of N, S,
\* E, W, the coordinate is degrees + minutes/60 + seconds/3600, negated for
\* S and W; 35/30/0 N and 139/45/0 E give 35.5 and 139.75.
C3_DmsToDecimal ==
    (/\ ExifDone
     /\ FiniteTriple(file.exif["GPSLatitude"])
     /\ FiniteTriple(file.exif["GPSLongitude"])
     /\ file.exif["GPSLatitudeRef"] \in Letters
     /\ file.exif["GPSLongitudeRef"] \in Letters)
    => /\ ret.val.gps.some
       /\ IsDms(ret.val.gps.val.lat, file.exif["GPSLatitude"].rat,
                Sign(file.exif["GPSLatitudeRef"]))
       /\ IsDms(ret.val.gps.val.lng, file.exif["GPSLongitude"].rat,
                Sign(file.exif["GPSLongitudeRef"]))
       /\ (\A t \in {"GPSLatitude", "GPSLatitudeRef",
                     "GPSLongitude", "GPSLongitudeRef"} :
               file.exif[t] = FullExif[t])
            => /\ ret.val.gps.val.lat.n = 71 /\ ret.val.gps.val.lat.d = 2
               /\ ret.val.gps.val.lng.n = 559 /\ ret.val.gps.val.lng.d = 4

\* A southern latitude came out negative
C3_Witness ==
    /\ ExifDone
    /\ file.exif["GPSLatitudeRef"] = Ascii(<<"S">>)
    /\ file.exif["GPSLatitude"] = Rational(<<Rat(35, 2), Rat(30, 1), Rat(30, 1)>>)
    /\ ret.val.gps.some
    /\ ret.val.gps.val.lat.n < 0

----------------------------------------------------------------------------
(* C4 *)

Fields ==
    {"gps", "datetime", "camera", "width", "height", "iso", "aperture",
     "shutter_speed", "focal_length"}

\* The logical field a tag belongs to
FieldOf(t) ==
    CASE t \in {"GPSLatitude", "GPSLatitudeRef",
                "GPSLongitude", "GPSLongitudeRef"} -> "gps"
      [] t \in {"DateTimeOriginal", "DateTime"} -> "datetime"
      [] t \in {"Make", "Model"} -> "camera"
      [] t \in {"PixelXDimension", "ImageWidth"} -> "width"
      [] t \in {"PixelYDimension", "ImageLength"} -> "height"
      [] t = "PhotographicSensitivity" -> "iso"
      [] t = "FNumber" -> "aperture"
      [] t = "ExposureTime" -> "shutter_speed"
      [] t = "FocalLength" -> "focal_length"

\* The file with the tags of S taken out of its container
Without(f, S) ==
    [f EXCEPT !.exif = [t \in Tags |-> IF t \in S THEN Absent ELSE f.exif[t]]]

\* C4: read_exif succeeds on every container that parses, whatever tags are
\* missing or malformed, and taking one tag, or all tags of one logical
\* field, out of the container leaves every other field of the record as it
\* was.
C4_FieldsIndependent ==
    /\ (Done("read_photo_exif") /\ file.readable /\ file.parses) => ret.ok
    /\ ExifDone =>
         \A t \in Tags :
            \A S \in {{t}, {u \in Tags : FieldOf(u) = FieldOf(t)}} :
               LET other == read_exif_open(TRUE, Without(file, S))
               IN  /\ other.ok
                   /\ \A fld \in Fields \ {FieldOf(t)} :
                         other.val[fld] = ret.val[fld]

\* A container without the make tag: ISO, dimensions and GPS are there
C4_Witness ==
    /\ ExifDone
    /\ file.exif = [FullExif EXCEPT !["Make"] = Absent]
    /\ ~ret.val.camera.some
    /\ ret.val.iso = Some(100)
    /\ ret.val.width = Some(4000)
    /\ ret.val.height = Some(3000)
    /\ ret.val.gps.some
    /\ ret.val.datetime.some
    /\ ret.val.aperture.some

----------------------------------------------------------------------------
(* C5, C6 *)

\* The container carries its timestamp as text
HasSourceText ==
    \/ file.exif["DateTimeOriginal"].type = "Ascii"
    \/ /\ file.exif["DateTimeOriginal"].type = "absent"
       /\ file.exif["DateTime"].type = "Ascii"

\* That text
SourceText ==
    IF file.exif["DateTimeOriginal"].type = "Ascii"
    THEN file.exif["DateTimeOriginal"].text
    ELSE file.exif["DateTime"].text

Separators(x) == {i \in 1..Len(x) : x[i] = " " \/ x[i] = "T"}

\* <date> <time>: exactly one space and no T
OneSpaceNoT(x) ==
    /\ Cardinality(Separators(x)) = 1
    /\ \A i \in 1..Len(x) : x[i] # "T"

SpaceAt(x) == CHOOSE i \in 1..Len(x) : x[i] = " "

DatePart(x) == SubSeq(x, 1, SpaceAt(x) - 1)

TimePart(x) == SubSeq(x, SpaceAt(x) + 1, Len(x))

\* C5 as stated: for <date> <time> the result is the date with its colons
\* as hyphens, a T, and the time portion as it is in the source.
C5_TimePortionUnchanged ==
    (ExifDone /\ HasSourceText /\ OneSpaceNoT(SourceText))
    => ret.val.datetime =
         Some(Replace(DatePart(SourceText), ":", "-") \o <<"T">>
              \o TimePart(SourceText))

\* C5 (amended): for <date> <time> with exactly one space and no T the
\* result is the date with every colon replaced by a hyphen, a T, and the
\* time portion with its colons kept and every hyphen replaced by a colon;
\* 2024:03:15 10:20:30 becomes 2024-03-15T10:20:30.
C5_DateHyphensTimeColons ==
    /\ (ExifDone /\ HasSourceText /\ OneSpaceNoT(SourceText))
       => ret.val.datetime =
            Some(Replace(DatePart(SourceText), ":", "-") \o <<"T">>
                 \o Replace(TimePart(SourceText), "-", ":"))
    /\ (ExifDone /\ HasSourceText /\ SourceText = Chars("ts"))
       => ret.val.datetime =
            Some(<<"2", "0", "2", "4", "-", "0", "3", "-", "1", "5", "T",
                   "1", "0", ":", "2", "0", ":", "3", "0">>)

\* The full timestamp has been converted
C5_Witness ==
    /\ ExifDone
    /\ file.exif["DateTimeOriginal"] = Ascii(Chars("ts"))
    /\ ret.val.datetime.some
    /\ ret.val.datetime.val[5] = "-"
    /\ ret.val.datetime.val[11] = "T"
    /\ ret.val.datetime.val[14] = ":"

\* C6: a timestamp text whose spaces and Ts number other than one, so that
\* the converted form does not split in two on T, is returned as Some of
\* the text itself, unchanged.
C6_FallbackIsOriginal ==
    (ExifDone /\ HasSourceText /\ Cardinality(Separators(SourceText)) # 1)
    => ret.val.datetime = Some(SourceText)

\* A text with two separators and a colon came back as it was
C6_Witness ==
    /\ ExifDone
    /\ HasSourceText
    /\ Cardinality(Separators(SourceText)) = 2
    /\ \E i \in 1..Len(SourceText) : SourceText[i] = ":"
    /\ ret.val.datetime = Some(SourceText)

----------------------------------------------------------------------------
(* C7 *)

\* C7: once get_photo_data has read the file's attributes, it does not
\* return before both calls are back, and then it returns a record whose
\* exif is the value read_exif produced, or None when read_exif failed, and
\* whose thumbnail is the value generate_thumbnail produced, or None when
\* generate_thumbnail failed.
C7_FailuresAreNotFatal ==
    [][/\ (cmd = "get_photo_data" /\ pc = "metadata" /\ pathExists)
            => pc' # "done"
       /\ (cmd = "get_photo_data" /\ pc # "metadata" /\ pc' = "done")
         => /\ pc = "assemble"
            /\ ret'.ok
            /\ ret'.val.exif.some = exifRes.ok
            /\ exifRes.ok => ret'.val.exif.val = exifRes.val
            /\ ret'.val.thumbnail.some = thumbRes.ok
            /\ thumbRes.ok => ret'.val.thumbnail.val = thumbRes.val]_vars

\* The thumbnail failed, the metadata is in the record
C7_Witness ==
    /\ Done("get_photo_data")
    /\ ret.ok
    /\ exifRes.ok
    /\ ~thumbRes.ok
    /\ ret.val.exif = Some(exifRes.val)
    /\ ret.val.thumbnail = None

----------------------------------------------------------------------------
(* C8 *)

ThumbDone == Done("generate_thumbnail") /\ ret.ok

\* The scaled side b of a thumbnail of long side a is within one pixel of
\* the source's proportion: |b - a * short / long| <= 1
WithinOnePixel(a, b, long, short) == Abs(b * long - a * short) <= long

\* C8: the thumbnail's longer side is at most THUMBNAIL_SIZE, and its
\* shorter side is within one pixel of the source's height/width proportion,
\* for sources larger and smaller than the bound.
C8_ThumbnailBound ==
    ThumbDone =>
        /\ ret.val.width <= THUMBNAIL_SIZE
        /\ ret.val.height <= THUMBNAIL_SIZE
        /\ ret.val.width >= 1
        /\ ret.val.height >= 1
        /\ IF file.width >= file.height
           THEN WithinOnePixel(ret.val.width, ret.val.height,
                               file.width, file.height)
           ELSE WithinOnePixel(ret.val.height, ret.val.width,
                               file.height, file.width)

\* A source smaller than the bound, and not square, has been resized
C8_Witness ==
    /\ ThumbDone
    /\ file.width < file.height
    /\ file.height < THUMBNAIL_SIZE
    /\ ret.val.height = THUMBNAIL_SIZE
    /\ ret.val.width < THUMBNAIL_SIZE

----------------------------------------------------------------------------
(* C9 *)

InRange(x, bound) ==
    x.k = "fin" /\ -bound * x.d <= x.n /\ x.n <= bound * x.d

\* C9 as stated: every GPS coordinate of a record has its latitude in
\* [-90, 90] and its longitude in [-180, 180]; here already for triples
\* whose rationals all have a denominator other than zero.
C9_CoordinateInRange ==
    (/\ ExifDone
     /\ ret.val.gps.some
     /\ FiniteTriple(file.exif["GPSLatitude"])
     /\ FiniteTriple(file.exif["GPSLongitude"]))
    => /\ InRange(ret.val.gps.val.lat, 90)
       /\ InRange(ret.val.gps.val.lng, 180)

----------------------------------------------------------------------------
(* C10 *)

\* C10 as stated: a missing path, a file that does not decode and an image
\* that does not encode give generate_thumbnail three different error
\* kinds.
C10_DistinctErrorKinds ==
    LET missing == generate_thumbnail_check(FALSE).val
        undecodable == generate_thumbnail_open(TRUE,
                           [file EXCEPT !.readable = TRUE, !.decodes = FALSE])
        unencodable == generate_thumbnail_open(TRUE,
                           [file EXCEPT !.readable = TRUE, !.decodes = TRUE,
                                        !.encodes = FALSE])
    IN  (Done("generate_thumbnail") /\ ~ret.ok /\ ret # missing
           /\ pathExists /\ file.readable /\ ~file.decodes)
        => /\ ret = undecodable
           /\ ret.err # missing.err
           /\ unencodable.err # missing.err
           /\ ret.err # unencodable.err

----------------------------------------------------------------------------
(* C11 *)

Present(t) == file.exif[t].type # "absent"

\* C11: the record has a camera identity exactly when the make tag and the
\* model tag are both in the container, and the make and the model of a
\* present identity are the trimmed texts of those two tags, never a text
\* standing in for a tag that is absent.
C11_CameraIffBoth ==
    ExifDone =>
        /\ ret.val.camera.some <=> (Present("Make") /\ Present("Model"))
        /\ ret.val.camera.some =>
             /\ file.exif["Make"].type = "Ascii" =>
                  ret.val.camera.val.make = Trim(file.exif["Make"].text)
             /\ file.exif["Model"].type = "Ascii" =>
                  ret.val.camera.val.model = Trim(file.exif["Model"].text)

\* The make is there, the model is not: no identity
C11_Witness ==
    /\ ExifDone
    /\ Present("Make")
    /\ ~Present("Model")
    /\ ret.val.camera = None

----------------------------------------------------------------------------
(* C12 *)

\* The unsigned integer a field value holds first, if it is one
UintOf(value) ==
    IF value.type = "Short" /\ value.int # <<>>
    THEN Some(Head(value.int)) ELSE None

\* The first of the two tags that is present decides, the second is looked
\* at only when the first is absent
FirstPresent(first, second) ==
    IF Present(first) THEN Some(file.exif[first])
    ELSE IF Present(second) THEN Some(file.exif[second])
    ELSE None

\* C12: the timestamp comes from DateTimeOriginal whenever that tag is
\* present, from DateTime only when it is absent, and is None when both are
\* absent; width comes from PixelXDimension whenever present and from
\* ImageWidth only otherwise, height likewise from PixelYDimension and
\* ImageLength, each decided by its own two tags.
C12_FirstPresentTagDecides ==
    ExifDone =>
        LET stamp == FirstPresent("DateTimeOriginal", "DateTime")
            wide == FirstPresent("PixelXDimension", "ImageWidth")
            high == FirstPresent("PixelYDimension", "ImageLength")
        IN  /\ ret.val.datetime.some = stamp.some
            /\ (stamp.some /\ stamp.val.type = "Ascii")
                 => ret.val.datetime = Some(convert_datetime(stamp.val.text))
            /\ ret.val.width = (IF wide.some THEN UintOf(wide.val) ELSE None)
            /\ ret.val.height = (IF high.some THEN UintOf(high.val) ELSE None)

\* The timestamp fell back to DateTime and the width to ImageWidth, while
\* the height came from PixelYDimension
C12_Witness ==
    /\ ExifDone
    /\ file.exif = [FullExif EXCEPT !["DateTimeOriginal"] = Absent,
                                    !["PixelXDimension"] = Absent]
    /\ ret.val.datetime = Some(convert_datetime(Chars("ts2")))
    /\ ret.val.width = Some(4032)
    /\ ret.val.height = Some(3000)

----------------------------------------------------------------------------
(* C13 *)

\* C13 as stated: when the file is gone at the open that follows a passed
\* existence check, read_exif and generate_thumbnail fail with the error
\* the existence check gives, FileNotFound.
C13_OpenFailureIsNotFound ==
    [][/\ (pc = "exif_open" /\ ~pathExists)
            => exifRes' = read_exif_check(FALSE).val
       /\ (pc = "thumb_open" /\ ~pathExists)
            => thumbRes' = generate_thumbnail_check(FALSE).val]_vars

----------------------------------------------------------------------------
(* C14 *)

\* The tags whose value is read by shape: get_uint, or a Rational match
ShapedTags ==
    {"PixelXDimension", "ImageWidth", "PixelYDimension", "ImageLength",
     "PhotographicSensitivity", "FNumber", "ExposureTime", "FocalLength"}

\* C14 as stated: a tag whose value has an unexpected shape gives the
\* record the same container gives with that tag removed; here for the
\* dimension, ISO, aperture, shutter speed and focal length tags.
C14_MalformedIsAbsent ==
    ExifDone =>
        \A t \in ShapedTags :
            file.exif[t] = Malformed(t)
              => ret = read_exif_open(TRUE, Without(file, {t}))

============================================================================
